---- MODULE Spec2Model ----
(***************************************************************************)
(* Model of Tag_Editor.py (TagEditorWindow): a folder of images, one text  *)
(* file per image stem, a text buffer, and the handlers that read and      *)
(* write the text files.                                                   *)
(*                                                                         *)
(* Texts are sequences of abstract characters.  "x" and "t" are ordinary   *)
(* characters, " " is whitespace, "," is the comma, and "<b>" stands for a *)
(* complete HTML element tag typed as characters.                          *)
(*                                                                         *)
(* Toolkit behaviour the handlers depend on:                               *)
(*  - QListWidget emits itemSelectionChanged synchronously, after the      *)
(*    current row has already changed (setCurrentRow, a click) and, in     *)
(*    clear(), before the current item is reset;                           *)
(*  - QTextEdit.setText always emits textChanged, and guesses whether its  *)
(*    argument is HTML; toPlainText returns the rendered plain text.       *)
(***************************************************************************)
EXTENDS Integers, Sequences, FiniteSets, TLC

\* ------------------------------------------------------------------ bounds
\* the longest text kept in the buffer or in a text file
MaxLen == 4

\* the number of user operations in a session
MaxSteps == 3

Dirs == {"d1"}

\* the image files that may exist in a folder, in sorted() order
NameOrder ==
  << [stem |-> "a", ext |-> ".jpg"],
     [stem |-> "a", ext |-> ".png"],
     [stem |-> "b", ext |-> ".png"] >>

Names == { NameOrder[i] : i \in 1..Len(NameOrder) }

Stems == { n.stem : n \in Names }

\* folder layouts considered
Layouts == { {}, {NameOrder[2], NameOrder[3]}, Names }

\* what the user may type into the text editor / the quick tag field
EditTexts == { <<>>, <<"x", " ">> }

QuickTags == { <<" ">>, <<"t", " ">>, <<"<b>">> }

\* content of the text files that exist before the program starts
InitTexts == { <<"x">> }

\* -------------------------------------------------------------- constants
NoFolder == "None"

NoImage == [dir |-> "None", stem |-> "", ext |-> ""]

NoPath == [dir |-> "None", stem |-> ""]

TxtPaths == [dir : Dirs, stem : Stems]

NoFile == [exists |-> FALSE, text |-> <<>>]

\* ------------------------------------------------------------ pure helpers
IsSpace(c) == c = " "

RECURSIVE lstrip(_)
lstrip(s) == IF s # <<>> /\ IsSpace(Head(s)) THEN lstrip(Tail(s)) ELSE s

RECURSIVE rstrip(_)
rstrip(s) ==
  IF s # <<>> /\ IsSpace(s[Len(s)]) THEN rstrip(SubSeq(s, 1, Len(s) - 1)) ELSE s

\* str.strip()
strip(s) == rstrip(lstrip(s))

\* Qt.mightBeRichText: the text holds an HTML element tag (on its first line)
mightBeRichText(s) == \E i \in 1..Len(s) : s[i] = "<b>"

\* the plain text of a document built from s by QTextEdit.setText
toPlainText(s) ==
  IF mightBeRichText(s) THEN SelectSeq(s, LAMBDA c : c # "<b>") ELSE s

\* pathlib.Path.with_suffix('.txt')
with_suffix_txt(img) == [dir |-> img.dir, stem |-> img.stem]

\* current_folder / name
PathOf(folder, name) == [dir |-> folder, stem |-> name.stem, ext |-> name.ext]

\* sorted(image_files)
sorted(S) == SelectSeq(NameOrder, LAMBDA n : n \in S)

\* f"{current_content}, {new_tag}" / f"{new_tag}, {current_content}"
JoinTags(action, current_content, new_tag) ==
  IF current_content # <<>>
  THEN IF action = "append"
       THEN current_content \o <<",", " ">> \o new_tag
       ELSE new_tag \o <<",", " ">> \o current_content
  ELSE new_tag

\* ------------------------------------------------------------------- state
VARIABLES
  images,           \* the image files of each folder (never changed)
  fs,               \* the text files: TxtPaths -> [exists, text]
  current_folder,
  current_image,
  unsaved_changes,
  text,             \* text_edit.toPlainText()
  file_list,        \* the names shown by the list widget
  current_row,      \* file_list.currentRow(), -1 when there is none
  ui_enabled,       \* update_ui_state
  has_focus,        \* text_edit.hasFocus()
  ev,               \* the last operation and what it did, in order
  steps             \* the number of operations so far

vars == << images, fs, current_folder, current_image, unsaved_changes, text,
           file_list, current_row, ui_enabled, has_focus, ev, steps >>

\* the program state as a record, threaded through the handlers
St ==
  [ fs |-> fs, current_folder |-> current_folder,
    current_image |-> current_image, unsaved_changes |-> unsaved_changes,
    text |-> text, file_list |-> file_list, current_row |-> current_row,
    ui_enabled |-> ui_enabled, has_focus |-> has_focus, log |-> <<>> ]

Entry(k, p, v) == [k |-> k, p |-> p, v |-> v]

Log(s, k, p, v) == [s EXCEPT !.log = Append(@, Entry(k, p, v))]

Init ==
  /\ images \in [Dirs -> Layouts]
  /\ fs \in [TxtPaths -> {NoFile} \cup [exists : {TRUE}, text : InitTexts]]
  /\ current_folder = NoFolder
  /\ current_image = NoImage
  /\ unsaved_changes = FALSE
  /\ text = <<>>
  /\ file_list = <<>>
  /\ current_row = -1
  /\ ui_enabled = FALSE
  /\ has_focus = FALSE
  /\ ev = [op |-> "init", action |-> "", tag |-> <<>>, log |-> <<>>]
  /\ steps = 0

\* ---------------------------------------------------------------- handlers
\* a write fails for the paths in bad.denied and bad.torn
Fails(bad, p) == p \in bad.denied \/ p \in bad.torn

\* Path.write_text: open(mode='w') fails and the file is untouched (denied),
\* or the data cannot be written after open() has truncated the file (torn)
write_text(s, p, content, bad) ==
  IF p \in bad.denied
  THEN Log(s, "write", p, "fail")
  ELSE IF p \in bad.torn
  THEN Log([s EXCEPT !.fs[p] = [exists |-> TRUE, text |-> <<>>]],
           "write", p, "fail")
  ELSE Log([s EXCEPT !.fs[p] = [exists |-> TRUE, text |-> content]],
           "write", p, "ok")

\* QTextEdit.setText, with the textChanged -> on_text_changed connection
setText(s, content, why) ==
  Log([s EXCEPT !.text = toPlainText(content), !.unsaved_changes = TRUE],
      why, NoPath, "")

focus_text_edit(s) == [s EXCEPT !.has_focus = TRUE]

load_tags(s) ==
  IF s.current_image = NoImage THEN s
  ELSE LET txt_path == with_suffix_txt(s.current_image) IN
       IF s.fs[txt_path].exists
       THEN setText(s, s.fs[txt_path].text, "load")
       ELSE Log(s, "read", txt_path, "fail")

\* save_current_tags clearing unsaved_changes whether or not the write worked
save_current_tags_flag_outside_try(s, bad) ==
  IF s.current_image = NoImage THEN s
  ELSE LET txt_path == with_suffix_txt(s.current_image)
           w == write_text(s, txt_path, s.text, bad) IN
       IF Fails(bad, txt_path)
       THEN [Log(w, "warning", txt_path, "save") EXCEPT !.unsaved_changes = FALSE]
       ELSE [w EXCEPT !.unsaved_changes = FALSE]

save_current_tags(s, bad) ==
  IF s.current_image = NoImage THEN s
  ELSE LET txt_path == with_suffix_txt(s.current_image)
           w == write_text(s, txt_path, s.text, bad) IN
       IF Fails(bad, txt_path)
       THEN Log(w, "warning", txt_path, "save")
       ELSE [w EXCEPT !.unsaved_changes = FALSE]

\* returns the state and the boolean result
check_unsaved_changes(s, reply, bad) ==
  IF s.unsaved_changes
  THEN LET q == Log(s, "prompt", NoPath, reply) IN
       IF reply = "Yes" THEN [st |-> save_current_tags(q, bad), ret |-> TRUE]
       ELSE IF reply = "No" THEN [st |-> q, ret |-> TRUE]
       ELSE [st |-> q, ret |-> FALSE]
  ELSE [st |-> s, ret |-> TRUE]

on_image_selected(s, reply, bad) ==
  LET c == check_unsaved_changes(s, reply, bad) IN
  IF c.ret
  THEN IF (c.st.current_row + 1) \in 1 .. Len(c.st.file_list)
       THEN LET image_path ==
                  PathOf(c.st.current_folder, c.st.file_list[c.st.current_row + 1])
                s1 == [c.st EXCEPT !.current_image = image_path]
                s2 == load_tags(s1)
            IN focus_text_edit([s2 EXCEPT !.unsaved_changes = FALSE])
       ELSE c.st
  ELSE c.st

\* QListWidget.setCurrentRow: itemSelectionChanged fires when the row changes
setCurrentRow(s, row, reply, bad) ==
  IF row # s.current_row
  THEN on_image_selected(Log([s EXCEPT !.current_row = row], "row", NoPath, ""),
                         reply, bad)
  ELSE s

navigate_previous(s, reply, bad) ==
  IF s.current_row > 0
  THEN focus_text_edit(setCurrentRow(s, s.current_row - 1, reply, bad))
  ELSE s

navigate_next(s, reply, bad) ==
  IF s.current_row < Len(s.file_list) - 1
  THEN focus_text_edit(setCurrentRow(s, s.current_row + 1, reply, bad))
  ELSE s

\* save_and_next moving to the next row before it saves
save_and_next_move_first(s, reply, bad) ==
  IF s.has_focus
  THEN focus_text_edit(save_current_tags(navigate_next(s, reply, bad), bad))
  ELSE s

save_and_next(s, reply, bad) ==
  IF s.has_focus
  THEN focus_text_edit(navigate_next(save_current_tags(s, bad), reply, bad))
  ELSE s

\* the loop of apply_to_all over rows i .. count
RECURSIVE apply_to_all_loop(_, _, _, _)
apply_to_all_loop(s, i, content, bad) ==
  IF i > Len(s.file_list) THEN s
  ELSE LET txt_path == with_suffix_txt(PathOf(s.current_folder, s.file_list[i]))
           w == write_text(s, txt_path, content, bad)
       IN apply_to_all_loop(
            IF Fails(bad, txt_path) THEN Log(w, "warning", txt_path, "update") ELSE w,
            i + 1, content, bad)

\* apply_to_all with a loop that starts after the first row
apply_to_all_skip_first(s, reply, bad) ==
  IF s.current_folder = NoFolder THEN s
  ELSE LET q == Log(s, "confirm", NoPath, reply) IN
       IF reply = "Yes" THEN apply_to_all_loop(q, 2, q.text, bad) ELSE q

apply_to_all(s, reply, bad) ==
  IF s.current_folder = NoFolder THEN s
  ELSE LET q == Log(s, "confirm", NoPath, reply) IN
       IF reply = "Yes" THEN apply_to_all_loop(q, 1, q.text, bad) ELSE q

modify_tags(s, action, tag, bad) ==
  IF s.current_image = NoImage THEN s
  ELSE LET new_tag == strip(tag) IN
       IF new_tag = <<>> THEN s
       ELSE LET current_content == strip(s.text)
                new_content == JoinTags(action, current_content, new_tag)
            IN save_current_tags(setText(s, new_content, "setText"), bad)

\* the loop of modify_all_tags over rows i .. count
RECURSIVE modify_all_tags_loop(_, _, _, _, _)
modify_all_tags_loop(s, i, action, new_tag, bad) ==
  IF i > Len(s.file_list) THEN s
  ELSE LET txt_path == with_suffix_txt(PathOf(s.current_folder, s.file_list[i]))
           s1 == IF ~s.fs[txt_path].exists
                 THEN Log(Log(s, "read", txt_path, "fail"),
                          "warning", txt_path, "update")
                 ELSE LET current_content == strip(s.fs[txt_path].text)
                          new_content == JoinTags(action, current_content, new_tag)
                          w == write_text(s, txt_path, new_content, bad)
                      IN IF Fails(bad, txt_path)
                         THEN Log(w, "warning", txt_path, "update")
                         ELSE w
       IN modify_all_tags_loop(s1, i + 1, action, new_tag, bad)

modify_all_tags(s, action, tag, reply, bad) ==
  IF s.current_folder = NoFolder THEN s
  ELSE LET new_tag == strip(tag) IN
       IF new_tag = <<>> THEN s
       ELSE LET q == Log(s, "confirm", NoPath, reply) IN
            IF reply = "Yes"
            THEN load_tags(modify_all_tags_loop(q, 1, action, new_tag, bad))
            ELSE q

\* missing_txt without the exists() test: every listed image's text file
missing_txt_no_exists_test(s, image_files) ==
  [i \in 1..Len(image_files) |->
     with_suffix_txt(PathOf(s.current_folder, image_files[i]))]

\* the text files missing for the images of a sorted list, in order
missing_txt(s, image_files) ==
  LET paths == [i \in 1..Len(image_files) |->
                  with_suffix_txt(PathOf(s.current_folder, image_files[i]))]
  IN SelectSeq(paths, LAMBDA p : ~s.fs[p].exists)

\* for txt_file in missing_txt: txt_file.write_text("")
RECURSIVE create_missing(_, _, _)
create_missing(s, missing, bad) ==
  IF missing = <<>> THEN s
  ELSE LET w == write_text(s, Head(missing), <<>>, bad) IN
       create_missing(
         IF Fails(bad, Head(missing)) THEN Log(w, "warning", Head(missing), "create")
         ELSE w,
         Tail(missing), bad)

update_ui_state(s, enabled) ==
  [s EXCEPT !.ui_enabled = enabled, !.has_focus = @ /\ enabled]

\* file_list.clear(): the selection is cleared first (itemSelectionChanged
\* fires while the old current item is still there), then the items go
clear(s, reply, bad) ==
  LET s1 == IF Len(s.file_list) > 0 THEN on_image_selected(s, reply, bad) ELSE s
  IN [s1 EXCEPT !.file_list = <<>>, !.current_row = -1]

load_files(s, dir_images, r1, rq, r2, bad) ==
  IF s.current_folder = NoFolder THEN s
  ELSE LET s1 == clear(s, r1, bad)
           image_files == sorted(dir_images)
           missing == missing_txt(s1, image_files)
           s2 == IF missing # <<>>
                 THEN LET q == Log(s1, "question", NoPath, rq) IN
                      IF rq = "Yes" THEN create_missing(q, missing, bad) ELSE q
                 ELSE s1
           s3 == [s2 EXCEPT !.file_list = image_files]
       IN IF Len(s3.file_list) > 0
          THEN setCurrentRow(update_ui_state(s3, TRUE), 0, r2, bad)
          ELSE Log(update_ui_state(s3, FALSE), "info", NoPath, "No Images")

open_folder(s, folder, dir_images, r1, rq, r2, bad) ==
  IF folder # ""
  THEN load_files([s EXCEPT !.current_folder = folder], dir_images, r1, rq, r2, bad)
  ELSE s

\* ----------------------------------------------------------------- actions
Replies == {"Yes", "No", "Cancel"}

YesNo == {"Yes", "No"}

\* the ways the writes of one operation to the text files in S may fail
FailModes(S) ==
  { b \in [denied : SUBSET S, torn : SUBSET S] : b.denied \cap b.torn = {} }

WithinBounds(s) ==
  /\ Len(s.text) <= MaxLen
  /\ \A p \in TxtPaths : Len(s.fs[p].text) <= MaxLen

\* the handler ran from St and ended in s
Commit(s, op, action, tag) ==
  /\ steps < MaxSteps
  /\ \E r \in {s} :
    /\ WithinBounds(r)
    /\ steps' = steps + 1
    /\ fs' = r.fs
    /\ current_folder' = r.current_folder
    /\ current_image' = r.current_image
    /\ unsaved_changes' = r.unsaved_changes
    /\ text' = r.text
    /\ file_list' = r.file_list
    /\ current_row' = r.current_row
    /\ ui_enabled' = r.ui_enabled
    /\ has_focus' = r.has_focus
    /\ ev' = [op |-> op, action |-> action, tag |-> tag, log |-> r.log]
    /\ UNCHANGED images

\* the answers the unsaved-changes prompt may get, when it can appear at all
PromptReplies(shown) == IF shown THEN Replies ELSE {"Cancel"}

\* the text file of current_image, and those of the listed images
CurrentTxt ==
  IF current_image = NoImage THEN {} ELSE {with_suffix_txt(current_image)}

ListedTxt ==
  { with_suffix_txt(PathOf(current_folder, file_list[i])) :
      i \in 1..Len(file_list) }

\* the text files of the images of the folder being opened
FolderTxt(folder) ==
  { with_suffix_txt(PathOf(folder, n)) : n \in images[folder] }

\* File > Open Folder, the dialog returning a folder or "" (cancelled)
OpenFolder ==
  \E folder \in Dirs \cup {""}, r1 \in PromptReplies(unsaved_changes),
     rq \in YesNo :
    \E r2 \in PromptReplies(r1 = "Cancel" /\ unsaved_changes),
       bad \in FailModes(CurrentTxt \cup
                         (IF folder = "" THEN {} ELSE FolderTxt(folder))) :
      Commit(open_folder(St, folder, IF folder = "" THEN {} ELSE images[folder],
                         r1, rq, r2, bad),
             "open_folder", folder, <<>>)

\* the user clicks another row of the list
SelectRow ==
  /\ ui_enabled
  /\ \E row \in 0 .. Len(file_list) - 1,
        reply \in PromptReplies(unsaved_changes), bad \in FailModes(CurrentTxt) :
       /\ row # current_row
       /\ Commit(setCurrentRow(St, row, reply, bad), "select", "", <<>>)

\* the user edits the text: textChanged -> on_text_changed
EditText ==
  /\ ui_enabled
  /\ \E t \in EditTexts :
       /\ t # text
       /\ Commit([St EXCEPT !.text = t, !.unsaved_changes = TRUE,
                            !.has_focus = TRUE],
                 "edit", "", <<>>)

\* the user moves the keyboard focus into or out of the text editor
SetFocus ==
  /\ ui_enabled
  /\ Commit([St EXCEPT !.has_focus = ~has_focus], "focus", "", <<>>)

ClickSave ==
  /\ ui_enabled
  /\ \E bad \in FailModes(CurrentTxt) :
       Commit(save_current_tags(St, bad), "save", "", <<>>)

ClickApplyToAll ==
  /\ ui_enabled
  /\ \E reply \in YesNo, bad \in FailModes(ListedTxt) :
       Commit(apply_to_all(St, reply, bad), "apply_to_all", "", <<>>)

\* Append / Prepend, the quick tag field holding tag
ClickModifyTags ==
  /\ ui_enabled
  /\ \E action \in {"append", "prepend"}, tag \in QuickTags,
        bad \in FailModes(CurrentTxt) :
       Commit(modify_tags(St, action, tag, bad), "modify_tags", action, tag)

\* Append to All / Prepend to All
ClickModifyAllTags ==
  /\ ui_enabled
  /\ \E action \in {"append", "prepend"}, tag \in QuickTags, reply \in YesNo,
        bad \in FailModes(ListedTxt) :
       Commit(modify_all_tags(St, action, tag, reply, bad),
              "modify_all_tags", action, tag)

\* Ctrl+Return
KeySaveAndNext ==
  \E reply \in PromptReplies(unsaved_changes), bad \in FailModes(CurrentTxt) :
    Commit(save_and_next(St, reply, bad), "save_and_next", "", <<>>)

\* Up without the editor focused (handle_up_key), or Ctrl+Up
KeyPrevious ==
  \E reply \in PromptReplies(unsaved_changes), bad \in FailModes(CurrentTxt) :
    Commit(navigate_previous(St, reply, bad), "navigate_previous", "", <<>>)

\* Down without the editor focused (handle_down_key), or Ctrl+Down
KeyNext ==
  \E reply \in PromptReplies(unsaved_changes), bad \in FailModes(CurrentTxt) :
    Commit(navigate_next(St, reply, bad), "navigate_next", "", <<>>)

Next ==
  \/ OpenFolder
  \/ SelectRow
  \/ EditText
  \/ SetFocus
  \/ ClickSave
  \/ ClickApplyToAll
  \/ ClickModifyTags
  \/ ClickModifyAllTags
  \/ KeySaveAndNext
  \/ KeyPrevious
  \/ KeyNext

Spec == Init /\ [][Next]_vars

\* ------------------------------------------------------- reading the record
Has(log, k, v) == \E i \in 1..Len(log) : log[i].k = k /\ log[i].v = v

HasKind(log, k) == \E i \in 1..Len(log) : log[i].k = k

\* the operations that change the list's selection on the user's request
SelectionOps == {"select", "navigate_previous", "navigate_next"}

\* the list's current row names current_image
RowNamesCurrentImage ==
  /\ (current_row + 1) \in 1..Len(file_list)
  /\ current_image = PathOf(current_folder, file_list[current_row + 1])

\* 'c, t' for append, 't, c' for prepend, 't' when c is empty
Joined(action, c, t) ==
  IF c = <<>> THEN t
  ELSE IF action = "append" THEN c \o <<",", " ">> \o t ELSE t \o <<",", " ">> \o c

\* ------------------------------------------------------------------ claims

\* C1: whenever unsaved_changes is true, the buffer is replaced by content
\* loaded from disk only after the unsaved-changes prompt was shown and
\* answered Yes or No.
C1_NoSilentDiscard ==
  [][ unsaved_changes =>
        \A i \in 1..Len(ev'.log) :
          ev'.log[i].k = "load" =>
            \E j \in 1..(i - 1) :
              ev'.log[j].k = "prompt" /\ ev'.log[j].v \in {"Yes", "No"} ]_vars

\* C2: a selection change with unsaved changes, answered Yes, leaves the text
\* file of the image being left (the previous current_image) holding exactly
\* the edited buffer; answered No, it writes no text file.
C2_SaveOnLeave ==
  [][ (ev'.op \in SelectionOps /\ unsaved_changes) =>
        /\ Has(ev'.log, "prompt", "Yes") =>
             fs'[with_suffix_txt(current_image)] = [exists |-> TRUE, text |-> text]
        /\ Has(ev'.log, "prompt", "No") => fs' = fs ]_vars

\* C3: a selection change answered Cancel writes no file and leaves
\* current_image, the buffer, unsaved_changes and the list's current row as
\* they were, so the current row still names current_image.
C3_CancelAbandons ==
  [][ (ev'.op \in SelectionOps /\ Has(ev'.log, "prompt", "Cancel")) =>
        /\ fs' = fs
        /\ current_image' = current_image
        /\ text' = text
        /\ unsaved_changes' = unsaved_changes
        /\ current_row' = current_row
        /\ RowNamesCurrentImage' ]_vars

\* the text files created (absent before, existing after) by a step
Created == { p \in TxtPaths : ~fs[p].exists /\ fs'[p].exists }

\* C4 as stated: load_files creates a text file only for a listed image whose
\* text file is absent, only after Yes to the question, and empty; it never
\* changes an existing text file; on No it creates none; every image is listed.
C4_LoadFilesAsStated ==
  [][ (ev'.op = "open_folder" /\ ev'.action # "") =>
        /\ \A p \in TxtPaths :
             fs'[p] # fs[p] =>
               /\ ~fs[p].exists
               /\ p \in FolderTxt(ev'.action)
               /\ Has(ev'.log, "question", "Yes")
               /\ fs'[p] = [exists |-> TRUE, text |-> <<>>]
        /\ Has(ev'.log, "question", "No") => Created = {}
        /\ file_list' = sorted(images[ev'.action]) ]_vars

\* C4 (amended): load_files creates an empty text file only for a listed image
\* whose text file is absent, only after Yes to the question; on No its
\* missing-file step creates none; every image is listed; the only other
\* change to a text file is the save of the unsaved buffer to the text file
\* of the previous current_image after Yes to an unsaved-changes prompt.
C4_LoadFiles ==
  [][ (ev'.op = "open_folder" /\ ev'.action # "") =>
        /\ \A p \in TxtPaths :
             fs'[p] # fs[p] =>
               \/ /\ ~fs[p].exists
                  /\ p \in FolderTxt(ev'.action)
                  /\ Has(ev'.log, "question", "Yes")
                  /\ fs'[p] = [exists |-> TRUE, text |-> <<>>]
               \/ /\ unsaved_changes
                  /\ Has(ev'.log, "prompt", "Yes")
                  /\ p = with_suffix_txt(current_image)
                  /\ fs'[p] = [exists |-> TRUE, text |-> text]
                       \/ \E i \in 1..Len(ev'.log) :
                            ev'.log[i] = Entry("write", p, "fail")
        /\ Has(ev'.log, "question", "No") =>
             \A p \in Created :
               Has(ev'.log, "prompt", "Yes") /\ p = with_suffix_txt(current_image)
        /\ file_list' = sorted(images[ev'.action]) ]_vars

\* C4 witness: a folder was opened, the question answered Yes, and a missing
\* text file of a listed image now exists and is empty.
C4_Witness ==
  /\ ev.op = "open_folder"
  /\ Has(ev.log, "question", "Yes")
  /\ \E i \in 1..Len(ev.log) :
       /\ ev.log[i].k = "write" /\ ev.log[i].v = "ok"
       /\ ev.log[i].p \in ListedTxt
       /\ fs[ev.log[i].p] = [exists |-> TRUE, text |-> <<>>]

\* everything the handlers may change, apart from the record of the operation
Program ==
  << fs, current_folder, current_image, unsaved_changes, text, file_list,
     current_row, ui_enabled, has_focus >>

\* C5: save_current_tags with a current image: on a successful write the text
\* file of current_image holds exactly the buffer and unsaved_changes is
\* false; on a failed write unsaved_changes and the buffer are unchanged and
\* an error is reported; with no current image nothing changes.
C5_SaveCurrentTags ==
  [][ ev'.op = "save" =>
        IF current_image = NoImage THEN UNCHANGED Program
        ELSE LET txt_path == with_suffix_txt(current_image) IN
             /\ Has(ev'.log, "write", "ok") \/ Has(ev'.log, "write", "fail")
             /\ Has(ev'.log, "write", "ok") =>
                  /\ fs' = [fs EXCEPT ![txt_path] = [exists |-> TRUE, text |-> text]]
                  /\ unsaved_changes' = FALSE
                  /\ text' = text
             /\ Has(ev'.log, "write", "fail") =>
                  /\ unsaved_changes' = unsaved_changes
                  /\ text' = text
                  /\ \A p \in TxtPaths \ {txt_path} : fs'[p] = fs[p]
                  /\ Has(ev'.log, "warning", "save") ]_vars

\* C5 witness: Save wrote an edited buffer to the text file of current_image.
C5_Witness ==
  /\ ev.op = "save"
  /\ Has(ev.log, "write", "ok")
  /\ text = <<"x", " ">>
  /\ fs[with_suffix_txt(current_image)].text = text
  /\ ~unsaved_changes

\* a second reachable case of C5: the write failed and the edit is still unsaved
C5_WitnessFail ==
  /\ ev.op = "save"
  /\ Has(ev.log, "write", "fail")
  /\ unsaved_changes
  /\ text = <<"x", " ">>
  /\ fs[with_suffix_txt(current_image)].text # text

\* C6: modify_tags with a non-blank quick tag t and buffer content c (both
\* stripped): the buffer and, on a successful write, the text file become
\* 'c, t' (append), 't, c' (prepend) or 't' (c empty), and unsaved_changes is
\* then false; with a blank quick tag or no current image nothing changes.
C6_ModifyTags ==
  [][ ev'.op = "modify_tags" =>
        LET t == strip(ev'.tag)
            c == strip(text)
            txt_path == with_suffix_txt(current_image)
        IN IF t = <<>> \/ current_image = NoImage THEN UNCHANGED Program
           ELSE /\ text' = Joined(ev'.action, c, t)
                /\ Has(ev'.log, "write", "ok") =>
                     /\ fs'[txt_path] =
                          [exists |-> TRUE, text |-> Joined(ev'.action, c, t)]
                     /\ unsaved_changes' = FALSE ]_vars

\* the rows of the list
Rows == 1..Len(file_list)

TxtOfRow(i) == with_suffix_txt(PathOf(current_folder, file_list[i]))

\* C7: modify_all_tags with a non-blank quick tag, confirmed with Yes, adds
\* the tag exactly once to the tags of every listed image whose file could be
\* read and written, whatever happened to the other files; answered No, or
\* with a blank quick tag, it changes no text file.
C7_ModifyAllTags ==
  [][ ev'.op = "modify_all_tags" =>
        LET t == strip(ev'.tag) IN
        IF t # <<>> /\ Has(ev'.log, "confirm", "Yes")
        THEN \A i \in Rows :
               LET p == TxtOfRow(i) IN
               (fs[p].exists /\ ~(\E j \in 1..Len(ev'.log) :
                                    ev'.log[j] = Entry("write", p, "fail"))) =>
                 fs'[p] = [exists |-> TRUE,
                           text |-> Joined(ev'.action, strip(fs[p].text), t)]
        ELSE fs' = fs ]_vars

\* C8: apply_to_all confirmed with Yes and without write failures leaves the
\* text file of every listed image holding exactly the buffer; answered No it
\* changes no text file; the buffer, current_image and the selection stay.
C8_ApplyToAll ==
  [][ ev'.op = "apply_to_all" =>
        /\ (Has(ev'.log, "confirm", "Yes") /\ ~Has(ev'.log, "write", "fail")) =>
             \A i \in Rows : fs'[TxtOfRow(i)] = [exists |-> TRUE, text |-> text]
        /\ Has(ev'.log, "confirm", "No") => fs' = fs
        /\ text' = text
        /\ current_image' = current_image
        /\ current_row' = current_row ]_vars

\* C8 witness: Apply to All, confirmed, put a non-empty buffer into the text
\* files of a list of several images.
C8_Witness ==
  /\ ev.op = "apply_to_all"
  /\ Has(ev.log, "confirm", "Yes")
  /\ ~Has(ev.log, "write", "fail")
  /\ Len(file_list) >= 2
  /\ text # <<>>
  /\ \A i \in Rows : fs[TxtOfRow(i)].text = text

\* C9: two distinct images of the file list are paired with two distinct text
\* files.
C9_OwnTagsFile ==
  \A i, j \in Rows : i # j => TxtOfRow(i) # TxtOfRow(j)

\* the current row is a row of the list (there is none in an empty list)
RowInRange ==
  IF Len(file_list) = 0 THEN current_row = -1
  ELSE current_row \in 0 .. Len(file_list) - 1

\* C10: save_and_next with the editor focused first writes the buffer to the
\* text file of current_image and only then moves the current row, by exactly
\* one, or not at all on the last row; navigate_next, navigate_previous and
\* save_and_next keep the current row within the list; after a successful
\* save the move raises no unsaved-changes prompt.
C10_SaveAndNext ==
  [][ /\ (ev'.op = "save_and_next" /\ has_focus) =>
           LET txt_path == with_suffix_txt(current_image) IN
           /\ ev'.log # <<>>
           /\ ev'.log[1].k = "write" /\ ev'.log[1].p = txt_path
           /\ ev'.log[1].v = "ok" =>
                /\ fs'[txt_path] = [exists |-> TRUE, text |-> text]
                /\ ~HasKind(ev'.log, "prompt")
           /\ current_row' = IF current_row < Len(file_list) - 1
                             THEN current_row + 1 ELSE current_row
           /\ HasKind(ev'.log, "row") <=> current_row' # current_row
      /\ (ev'.op = "save_and_next" /\ ~has_focus) => UNCHANGED Program
      /\ ev'.op \in {"save_and_next", "navigate_next", "navigate_previous"} =>
           /\ RowInRange'
           /\ file_list' = file_list
           /\ current_row' - current_row \in {-1, 0, 1} ]_vars

\* C10 witness: Ctrl+Return saved an edited buffer and the list then moved to
\* the next row and showed its image.
C10_Witness ==
  /\ ev.op = "save_and_next"
  /\ Len(ev.log) >= 2
  /\ ev.log[1].k = "write" /\ ev.log[1].v = "ok"
  /\ ev.log[2].k = "row"
  /\ fs[ev.log[1].p].text = <<"x", " ">>
  /\ current_row = 1
  /\ RowNamesCurrentImage

\* a second reachable case of C10: Ctrl+Return on the last row saved and the
\* row stayed
C10_WitnessLastRow ==
  /\ ev.op = "save_and_next"
  /\ ev.log # <<>> /\ ev.log[1].k = "write" /\ ev.log[1].v = "ok"
  /\ ~HasKind(ev.log, "row")
  /\ Len(file_list) >= 2
  /\ current_row = Len(file_list) - 1

\* the flag agrees with the disk: when a current image is set (and its text
\* file exists), unsaved_changes is false if and only if the text buffer
\* equals the content of that text file
C11_FlagTracksDisk ==
  LET txt_path == with_suffix_txt(current_image) IN
  (current_image # NoImage /\ fs[txt_path].exists) =>
    (unsaved_changes = FALSE <=> text = fs[txt_path].text)

\* C11, over the operations none of whose writes fails: unsaved_changes is
\* false if and only if the buffer equals the current image's text file after
\* every such operation started where that was so.
C11_FlagTracksDiskStep ==
  [][ (C11_FlagTracksDisk /\ ~Has(ev'.log, "write", "fail")) =>
        C11_FlagTracksDisk' ]_vars

====
